---- MODULE Spec2Model ----
(***************************************************************************)
(* Model of the include_data crate (src/src/lib.rs): the macros            *)
(* include_data!, include_unsafe!, include_slice! and the per-type slice   *)
(* aliases, together with the AlignedAs container.                         *)
(*                                                                         *)
(* One behaviour is one use of one macro on one target platform: the       *)
(* compiler expands the macro on a file's bytes (a build step), and the    *)
(* program may then read the bytes of the value back, as the tests do.     *)
(*                                                                         *)
(* An integer or float value is held as its sequence of base-256 digits,   *)
(* least significant first ("limbs"): limb j is the coefficient of         *)
(* 256^(j-1).  Num gives the number itself where it fits in TLC's integers.*)
(***************************************************************************)
EXTENDS Integers, Sequences, FiniteSets, TLC

VARIABLES
    platform,   \* the build: host endianness, target endianness/widths
    pc,         \* "start" | "built" | "read"
    op,         \* the macro that was expanded
    ty,         \* the target (element) type of the expansion
    ctx,        \* where the macro is used: "static" | "const" | "fn"
    file,       \* the bytes include_bytes! read
    outcome,    \* "none" | "ok" | "build_error" | "panic"
    errs,       \* the diagnostics of a failed expansion
    value,      \* the typed result: field values (scalar) or elements (slice)
    ptr,        \* data pointer of the returned slice (0: no slice)
    readback    \* the bytes of the value, read back in order

vars == <<platform, pc, op, ty, ctx, file, outcome, errs, value, ptr, readback>>

----------------------------------------------------------------------------
(* Bounds of the model *)

\* longest file built from FileBytes
MaxLen == 4
\* number of candidate addresses the linker may give the ALIGNED static
MaxSlots == 2

\* byte values the generated files are made of: 0 and 1 are the legal bool
\* patterns, 255 is not
FileBytes == {0, 1, 255}

RECURSIVE SeqsUpTo(_, _)
SeqsUpTo(S, n) ==
    IF n = 0 THEN {<<>>}
    ELSE LET shorter == SeqsUpTo(S, n - 1)
         IN  shorter \cup {Append(s, x) : s \in {t \in shorter : Len(t) = n - 1}, x \in S}

\* a file holding the bytes 0..n-1 in order (tests/test_data/binary_<n>)
Iota(n) == [i \in 1..n |-> i - 1]

\* tests/test_data/binary_4, binary_31, binary_32, binary_64 and two more
\* of the same shape so that every integer width has a file of its size
IotaFiles == {Iota(n) : n \in {4, 8, 16, 31, 32, 64}}

\* tests/test_data/file_exactly_4_bytes_long
FileExactly4 == <<1, 0, 2, 3>>

Files == SeqsUpTo(FileBytes, MaxLen) \cup IotaFiles \cup {FileExactly4}

----------------------------------------------------------------------------
(* Platforms *)

Platforms ==
    { [host_endian |-> "little", endian |-> "little", ptr_width |-> 8, max_align |-> 16],
      [host_endian |-> "little", endian |-> "big",    ptr_width |-> 4, max_align |-> 8],
      [host_endian |-> "big",    endian |-> "little", ptr_width |-> 4, max_align |-> 4],
      [host_endian |-> "big",    endian |-> "big",    ptr_width |-> 8, max_align |-> 8] }

Min(a, b) == IF a < b THEN a ELSE b
Max(a, b) == IF a > b THEN a ELSE b

----------------------------------------------------------------------------
(* Types *)

IntPrims == {"u8", "u16", "u32", "u64", "u128", "usize",
             "i8", "i16", "i32", "i64", "i128", "isize"}
FloatPrims == {"f32", "f64"}
Prims == IntPrims \cup FloatPrims \cup {"bool"}

\* the struct and array types of the crate's examples and tests, and ()
Types == Prims \cup {"[u8; 4]", "Foo", "StructWithPadding", "StructWithBools", "()"}

\* size_of of a primitive on platform p
PrimSize(t, p) ==
    CASE t \in {"u8", "i8", "bool"}    -> 1
      [] t \in {"u16", "i16"}          -> 2
      [] t \in {"u32", "i32", "f32"}   -> 4
      [] t \in {"u64", "i64", "f64"}   -> 8
      [] t \in {"u128", "i128"}        -> 16
      [] t \in {"usize", "isize"}      -> p.ptr_width

\* align_of of a primitive on platform p
PrimAlign(t, p) == Min(PrimSize(t, p), p.max_align)

\* the fields of a type, in declaration order (a primitive is its own field)
TypeFields(t) ==
    CASE t \in Prims                -> <<t>>
      [] t = "[u8; 4]"              -> <<"u8", "u8", "u8", "u8">>
      [] t = "Foo"                  -> <<"u16", "u8", "u8">>
      [] t = "StructWithPadding"    -> <<"u8", "u16">>
      [] t = "StructWithBools"      -> <<"bool", "bool", "u16">>
      [] t = "()"                   -> <<>>

\* the types that implement bytemuck::Pod
IsPod(t) == t \in (IntPrims \cup FloatPrims \cup {"[u8; 4]", "Foo", "()"})

----------------------------------------------------------------------------
(* repr(C) layout of an aggregate whose fields are [size, align] records *)

RoundUp(n, a) == ((n + a - 1) \div a) * a

\* ReprCOffset as it would be for a packed layout (no rounding to alignment)
RECURSIVE PackedOffset(_, _)
PackedOffset(fs, i) ==
    IF i = 1 THEN 0 ELSE PackedOffset(fs, i - 1) + fs[i - 1].size

RECURSIVE ReprCOffset(_, _)
ReprCOffset(fs, i) ==
    IF i = 1 THEN 0
    ELSE RoundUp(ReprCOffset(fs, i - 1) + fs[i - 1].size, fs[i].align)

RECURSIVE MaxAlign(_, _)
MaxAlign(fs, i) == IF i = 0 THEN 1 ELSE Max(fs[i].align, MaxAlign(fs, i - 1))

ReprCAlign(fs) == MaxAlign(fs, Len(fs))

ReprCSize(fs) ==
    IF Len(fs) = 0 THEN 0
    ELSE RoundUp(ReprCOffset(fs, Len(fs)) + fs[Len(fs)].size, ReprCAlign(fs))

FieldLayouts(t, p) ==
    [i \in 1..Len(TypeFields(t)) |->
        [size |-> PrimSize(TypeFields(t)[i], p), align |-> PrimAlign(TypeFields(t)[i], p)]]

SizeOf(t, p) == ReprCSize(FieldLayouts(t, p))
AlignOf(t, p) == ReprCAlign(FieldLayouts(t, p))
OffsetOf(t, i, p) == ReprCOffset(FieldLayouts(t, p), i)

----------------------------------------------------------------------------
(* Bit-level conversions *)

Reverse(s) == [i \in 1..Len(s) |-> s[Len(s) + 1 - i]]

\* FromBytes as it would be if the bytes were always taken as little-endian
FromBytesNoSwap(bs, endian) == bs

\* the value of a primitive whose bytes in memory are bs, on a target of the
\* given endianness, as limbs (least significant first)
FromBytes(bs, endian) == IF endian = "little" THEN bs ELSE Reverse(bs)

\* the bytes in memory of a primitive value given as limbs
ToBytes(limbs, endian) == IF endian = "little" THEN limbs ELSE Reverse(limbs)

\* the bytes of field i of a value of type t laid over bs
FieldBytes(bs, t, i, p) ==
    SubSeq(bs, OffsetOf(t, i, p) + 1,
               OffsetOf(t, i, p) + PrimSize(TypeFields(t)[i], p))

\* Transmute as it would be if the build host's byte order were used
TransmuteHostEndian(bs, t, p) ==
    [i \in 1..Len(TypeFields(t)) |->
        IF p.host_endian = "little" THEN FieldBytes(bs, t, i, p)
        ELSE Reverse(FieldBytes(bs, t, i, p))]

\* core::mem::transmute::<[u8; N], T>, N == size_of::<T>(): the field values
Transmute(bs, t, p) ==
    [i \in 1..Len(TypeFields(t)) |-> FromBytes(FieldBytes(bs, t, i, p), p.endian)]

\* whether bs is a legal bit pattern of t (a bool is 0x00 or 0x01)
ValidBits(bs, t, p) ==
    \A i \in 1..Len(TypeFields(t)) :
        TypeFields(t)[i] = "bool" => FieldBytes(bs, t, i, p)[1] \in {0, 1}

\* byte offsets (1-based) of t covered by no field
PadOffsets(t, p) ==
    {k \in 1..SizeOf(t, p) :
        \A i \in 1..Len(TypeFields(t)) :
            \/ k <= OffsetOf(t, i, p)
            \/ k > OffsetOf(t, i, p) + PrimSize(TypeFields(t)[i], p)}

\* the field whose bytes include offset k (k not a padding offset)
FieldAt(t, k, p) ==
    CHOOSE i \in 1..Len(TypeFields(t)) :
        /\ k > OffsetOf(t, i, p)
        /\ k <= OffsetOf(t, i, p) + PrimSize(TypeFields(t)[i], p)

\* the bytes of a value of type t; padding bytes are taken from fill
ValueBytes(v, t, p, fill) ==
    [k \in 1..SizeOf(t, p) |->
        IF k \in PadOffsets(t, p) THEN fill[k]
        ELSE ToBytes(v[FieldAt(t, k, p)], p.endian)[k - OffsetOf(t, FieldAt(t, k, p), p)]]

RECURSIVE Concat(_, _)
Concat(ss, n) == IF n = 0 THEN <<>> ELSE Concat(ss, n - 1) \o ss[n]

----------------------------------------------------------------------------
(* The AlignedAs container *)

\* AlignedAsFields as it would be without the _align field
AlignedAsFieldsNoAlign(t, n, p) ==
    << [size |-> 0, align |-> 1],
       [size |-> n, align |-> 1] >>

\* #[repr(C)] struct AlignedAs<T, B> { _align: [T; 0], bytes: B }, B = [u8; n]
AlignedAsFields(t, n, p) ==
    << [size |-> 0, align |-> AlignOf(t, p)],
       [size |-> n, align |-> 1] >>

AlignedAsAlign(t, n, p) == ReprCAlign(AlignedAsFields(t, n, p))
BytesOffset(t, n, p) == ReprCOffset(AlignedAsFields(t, n, p), 2)

\* the addresses at which the ALIGNED static may be placed
StaticAddrs(t, n, p) == {k * AlignedAsAlign(t, n, p) : k \in 1..MaxSlots}

----------------------------------------------------------------------------
(* The state machine *)

\* include_data! and include_unsafe! initialize a static or a const
Contexts == {"static", "const"}

Init ==
    /\ platform \in Platforms
    /\ pc = "start"
    /\ op = "none"
    /\ ty = "none"
    /\ ctx = "none"
    /\ file = <<>>
    /\ outcome = "none"
    /\ errs = {}
    /\ value = <<>>
    /\ ptr = 0
    /\ readback = <<>>

\* diagnostics of include_data!: the Pod bound of typecheck and transmute's
\* size check
DataErrors(t, f, p) ==
    (IF IsPod(t) THEN {} ELSE {"NotPod"})
        \cup (IF Len(f) = SizeOf(t, p) THEN {} ELSE {"SizeMismatch"})

\* static/const X: t = include_data!(f)
IncludeData(t, f, c) ==
    /\ pc = "start"
    /\ pc' = "built"
    /\ op' = "include_data"
    /\ ty' = t
    /\ ctx' = c
    /\ file' = f
    /\ errs' = DataErrors(t, f, platform)
    /\ outcome' = IF errs' = {} THEN "ok" ELSE "build_error"
    /\ value' = IF errs' = {} THEN Transmute(f, t, platform) ELSE <<>>
    /\ UNCHANGED <<platform, ptr, readback>>

\* UnsafeErrors as it would be if only a file that is too short were rejected
UnsafeErrorsTooShortOnly(t, f, p) ==
    IF Len(f) >= SizeOf(t, p) THEN {} ELSE {"SizeMismatch"}

\* UnsafeErrors as it would be if typecheck kept the Pod bound
UnsafeErrorsWithPodBound(t, f, p) ==
    (IF IsPod(t) THEN {} ELSE {"NotPod"})
        \cup (IF Len(f) = SizeOf(t, p) THEN {} ELSE {"SizeMismatch"})

\* diagnostics of include_unsafe!: transmute's size check alone
UnsafeErrors(t, f, p) ==
    IF Len(f) = SizeOf(t, p) THEN {} ELSE {"SizeMismatch"}

\* what the build can do with a transmute to an invalid value: it is
\* undefined; the macro checks nothing, and the compiler's evaluation of the
\* initializer may or may not reject the value
InvalidOutcomes == {"ok", "build_error"}

\* static/const X: t = unsafe { include_unsafe!(f) }
IncludeUnsafe(t, f, c) ==
    /\ pc = "start"
    /\ pc' = "built"
    /\ op' = "include_unsafe"
    /\ ty' = t
    /\ ctx' = c
    /\ file' = f
    /\ IF UnsafeErrors(t, f, platform) # {}
       THEN /\ errs' = UnsafeErrors(t, f, platform)
            /\ outcome' = "build_error"
            /\ value' = <<>>
       ELSE IF ValidBits(f, t, platform)
       THEN /\ errs' = {}
            /\ outcome' = "ok"
            /\ value' = Transmute(f, t, platform)
       ELSE \E o \in InvalidOutcomes :
            /\ outcome' = o
            /\ errs' = IF o = "ok" THEN {} ELSE {"InvalidValue"}
            /\ value' = IF o = "ok" THEN Transmute(f, t, platform) ELSE <<>>
    /\ UNCHANGED <<platform, ptr, readback>>

\* the contexts include_slice! is used in: a static's initializer, where the
\* block is evaluated by the compiler, or a function body
SliceContexts == {"static", "fn"}

\* SliceErrors as it would be without the assert
SliceErrorsNoAssert(t, f, p) ==
    IF ~IsPod(t) THEN {"NotPod"}
    ELSE IF SizeOf(t, p) = 0 THEN {"RemainderByZero"}
    ELSE {}

\* SliceErrors as it would be if the element count len / SIZE were formed
\* before the remainder is asserted
SliceErrorsDivisionFirst(t, f, p) ==
    IF ~IsPod(t) THEN {"NotPod"}
    ELSE IF SizeOf(t, p) = 0 THEN {"DivisionByZero"}
    ELSE IF Len(f) % SizeOf(t, p) # 0 THEN {"NotDivisible"}
    ELSE {}

\* diagnostics of include_slice!: the Pod bound of AlignedAs, then the
\* assert on the remainder (a remainder by zero when SIZE == 0)
SliceErrors(t, f, p) ==
    IF ~IsPod(t) THEN {"NotPod"}
    ELSE IF SizeOf(t, p) = 0 THEN {"RemainderByZero"}
    ELSE IF Len(f) % SizeOf(t, p) # 0 THEN {"NotDivisible"}
    ELSE {}

\* how a failure of include_slice! shows: the Pod bound is a type error; the
\* assert fails in the compiler for a static and panics in a function body
SliceFailure(es, c) ==
    IF "NotPod" \in es \/ c = "static" THEN "build_error" ELSE "panic"

\* SliceLen as it would be with the length taken one byte short
SliceLenShort(t, f, p) == (Len(f) - 1) \div SizeOf(t, p)

\* byte_slice.len() / SIZE
SliceLen(t, f, p) == Len(f) \div SizeOf(t, p)

\* SliceElems as it would be if element k started at byte k, not k * SIZE
SliceElemsByteStride(t, f, p) ==
    [k \in 1..SliceLen(t, f, p) |->
        Transmute(SubSeq(f, k, k - 1 + SizeOf(t, p)), t, p)]

\* the elements of from_raw_parts(byte_slice.as_ptr().cast(), len / SIZE)
SliceElems(t, f, p) ==
    [k \in 1..SliceLen(t, f, p) |->
        Transmute(SubSeq(f, (k - 1) * SizeOf(t, p) + 1, k * SizeOf(t, p)), t, p)]

\* the expansion of include_slice!(t, f) in context c, the ALIGNED static
\* at address base; name is the macro the user wrote
SliceExpansion(name, t, f, c, base) ==
    /\ pc = "start"
    /\ pc' = "built"
    /\ op' = name
    /\ ty' = t
    /\ ctx' = c
    /\ file' = f
    /\ errs' = SliceErrors(t, f, platform)
    /\ outcome' = IF errs' = {} THEN "ok" ELSE SliceFailure(errs', c)
    /\ value' = IF errs' = {} THEN SliceElems(t, f, platform) ELSE <<>>
    /\ ptr' = IF errs' = {} THEN base + BytesOffset(t, Len(f), platform) ELSE 0
    /\ UNCHANGED <<platform, readback>>

IncludeSlice(t, f, c, base) == SliceExpansion("include_slice", t, f, c, base)

\* the per-type aliases
Aliases == {"include_u8s", "include_u16s", "include_u32s", "include_u64s",
            "include_u128s", "include_usizes",
            "include_i8s", "include_i16s", "include_i32s", "include_i64s",
            "include_i128s", "include_isizes",
            "include_f32s", "include_f64s"}

\* AliasTarget as it would be with include_f64s passing f32
AliasTargetF64AsF32(a) ==
    CASE a = "include_u8s"    -> "u8"
      [] a = "include_u16s"   -> "u16"
      [] a = "include_u32s"   -> "u32"
      [] a = "include_u64s"   -> "u64"
      [] a = "include_u128s"  -> "u128"
      [] a = "include_usizes" -> "usize"
      [] a = "include_i8s"    -> "i8"
      [] a = "include_i16s"   -> "i16"
      [] a = "include_i32s"   -> "i32"
      [] a = "include_i64s"   -> "i64"
      [] a = "include_i128s"  -> "i128"
      [] a = "include_isizes" -> "isize"
      [] a = "include_f32s"   -> "f32"
      [] a = "include_f64s"   -> "f32"

\* the element type each alias passes to include_slice!
AliasTarget(a) ==
    CASE a = "include_u8s"    -> "u8"
      [] a = "include_u16s"   -> "u16"
      [] a = "include_u32s"   -> "u32"
      [] a = "include_u64s"   -> "u64"
      [] a = "include_u128s"  -> "u128"
      [] a = "include_usizes" -> "usize"
      [] a = "include_i8s"    -> "i8"
      [] a = "include_i16s"   -> "i16"
      [] a = "include_i32s"   -> "i32"
      [] a = "include_i64s"   -> "i64"
      [] a = "include_i128s"  -> "i128"
      [] a = "include_isizes" -> "isize"
      [] a = "include_f32s"   -> "f32"
      [] a = "include_f64s"   -> "f64"

\* the macros the crate declares with #[macro_export] macro_rules!
DeclaredMacros == {"include_data", "include_unsafe", "include_slice"} \cup Aliases

\* AliasCallee as it would be with include_f64s naming a macro that is not
\* declared
AliasCalleeF64Misspelled(a) ==
    IF a = "include_f64s" THEN "include_floats" ELSE "include_slice"

\* the macro each alias invokes in its body ($crate::include_slice!)
AliasCallee(a) ==
    CASE a = "include_u8s"    -> "include_slice"
      [] a = "include_u16s"   -> "include_slice"
      [] a = "include_u32s"   -> "include_slice"
      [] a = "include_u64s"   -> "include_slice"
      [] a = "include_u128s"  -> "include_slice"
      [] a = "include_usizes" -> "include_slice"
      [] a = "include_i8s"    -> "include_slice"
      [] a = "include_i16s"   -> "include_slice"
      [] a = "include_i32s"   -> "include_slice"
      [] a = "include_i64s"   -> "include_slice"
      [] a = "include_i128s"  -> "include_slice"
      [] a = "include_isizes" -> "include_slice"
      [] a = "include_f32s"   -> "include_slice"
      [] a = "include_f64s"   -> "include_slice"

\* an alias whose body names no declared macro does not expand
UnresolvedAlias(a, f, c) ==
    /\ pc = "start"
    /\ pc' = "built"
    /\ op' = a
    /\ ty' = AliasTarget(a)
    /\ ctx' = c
    /\ file' = f
    /\ errs' = {"UnresolvedMacro"}
    /\ outcome' = "build_error"
    /\ value' = <<>>
    /\ ptr' = 0
    /\ UNCHANGED <<platform, readback>>

IncludeAlias(a, f, c, base) ==
    IF AliasCallee(a) \in DeclaredMacros
    THEN SliceExpansion(a, AliasTarget(a), f, c, base)
    ELSE UnresolvedAlias(a, f, c)

\* the bytes a program may read back from a scalar value: padding bytes are
\* not part of the value and read as anything
ScalarReadbacks(v, t, p) ==
    {ValueBytes(v, t, p, fill) : fill \in [PadOffsets(t, p) -> FileBytes]}

\* the bytes of a slice: its elements' bytes in index order
SliceBytes(v, t, p) ==
    Concat([k \in 1..Len(v) |-> ValueBytes(v[k], t, p, <<>>)], Len(v))

\* the program reads the bytes of the included value
ReadBack ==
    /\ pc = "built"
    /\ outcome = "ok"
    /\ pc' = "read"
    /\ IF op \in {"include_data", "include_unsafe"}
       THEN readback' \in ScalarReadbacks(value, ty, platform)
       ELSE readback' = SliceBytes(value, ty, platform)
    /\ UNCHANGED <<platform, op, ty, ctx, file, outcome, errs, value, ptr>>

DataStep ==
    /\ pc = "start"
    /\ \E t \in Types, f \in Files, c \in Contexts : IncludeData(t, f, c)

UnsafeStep ==
    /\ pc = "start"
    /\ \E t \in Types, f \in Files, c \in Contexts : IncludeUnsafe(t, f, c)

SliceStep ==
    /\ pc = "start"
    /\ \E t \in Types, f \in Files, c \in SliceContexts :
          \E base \in StaticAddrs(t, Len(f), platform) : IncludeSlice(t, f, c, base)

AliasStep ==
    /\ pc = "start"
    /\ \E a \in Aliases, f \in Files, c \in SliceContexts :
          \E base \in StaticAddrs(AliasTarget(a), Len(f), platform) :
              IncludeAlias(a, f, c, base)

Next == DataStep \/ UnsafeStep \/ SliceStep \/ AliasStep \/ ReadBack

Spec == Init /\ [][Next]_vars

----------------------------------------------------------------------------
(* Helpers of the properties *)

\* the number whose limbs are given: sum of limbs[j] * 256^(j-1)
RECURSIVE NumFrom(_, _)
NumFrom(limbs, j) ==
    IF j > Len(limbs) THEN 0 ELSE limbs[j] + 256 * NumFrom(limbs, j + 1)

Num(limbs) == NumFrom(limbs, 1)

Built == pc \in {"built", "read"}
Failed == outcome \in {"build_error", "panic"}
ScalarOps == {"include_data", "include_unsafe"}
SliceOps == {"include_slice"} \cup Aliases

----------------------------------------------------------------------------
(* Properties *)

\* C1: scalar round trip.  Whenever include_data! is given a Pod type and a
\* file of exactly the type's size it yields a value, and the bytes of that
\* value, read back in order, are exactly the file's bytes.
C1_ScalarRoundTrip ==
    (Built /\ op = "include_data" /\ IsPod(ty) /\ Len(file) = SizeOf(ty, platform))
        => /\ outcome = "ok"
           /\ pc = "read" => readback = file

C1_Witness ==
    /\ pc = "read"
    /\ op = "include_data"
    /\ ty = "Foo"
    /\ platform.endian = "big"
    /\ file = <<1, 255, 0, 1>>
    /\ readback = file

\* C2: a scalar size mismatch is a build failure.  Whenever include_data! or
\* include_unsafe! is given a file whose length differs from the type's size
\* (shorter or longer), the build fails with the size error and no value is
\* produced.
C2_SizeMismatchFails ==
    (Built /\ op \in ScalarOps /\ Len(file) # SizeOf(ty, platform))
        => /\ outcome = "build_error"
           /\ "SizeMismatch" \in errs
           /\ value = <<>>
           /\ pc # "read"

C2_Witness ==
    /\ Built
    /\ op = "include_unsafe"
    /\ ty = "u16"
    /\ Len(file) = 3
    /\ outcome = "build_error"

\* C3: slice reconstruction.  Whenever include_slice! is given a Pod element
\* type of non-zero size and a file whose length is a multiple of it, it
\* yields len / size elements, the bytes of element k are the file's bytes
\* [k * size, (k + 1) * size), and the elements' bytes in index order are the
\* file.
C3_SliceReconstruction ==
    (Built /\ op = "include_slice" /\ IsPod(ty) /\ SizeOf(ty, platform) > 0
           /\ Len(file) % SizeOf(ty, platform) = 0)
        => /\ outcome = "ok"
           /\ Len(value) * SizeOf(ty, platform) = Len(file)
           /\ \A k \in 1..Len(value) :
                 ValueBytes(value[k], ty, platform, <<>>)
                     = SubSeq(file, (k - 1) * SizeOf(ty, platform) + 1,
                                    k * SizeOf(ty, platform))
           /\ pc = "read" => readback = file

C3_Witness ==
    /\ pc = "read"
    /\ op = "include_slice"
    /\ ty = "u16"
    /\ platform.endian = "big"
    /\ file = <<0, 1, 255, 0>>
    /\ Len(value) = 2
    /\ readback = file

\* C4: slice rejection.  Whenever include_slice! is given a file whose length
\* is not a multiple of the element size, it fails (a build failure, or a
\* panic before the slice exists) and returns no slice; for a Pod element
\* type the failure is the divisibility assert.
C4_SliceRejection ==
    (Built /\ op = "include_slice" /\ SizeOf(ty, platform) > 0
           /\ Len(file) % SizeOf(ty, platform) # 0)
        => /\ Failed
           /\ value = <<>>
           /\ ptr = 0
           /\ pc # "read"
           /\ IsPod(ty) => errs = {"NotDivisible"}

C4_Witness ==
    /\ Built
    /\ op = "include_slice"
    /\ ty = "u16"
    /\ Len(file) = 3
    /\ errs = {"NotDivisible"}
    /\ outcome = "build_error"

\* C5: alignment.  The byte buffer of AlignedAs sits at offset 0, and the
\* data pointer of every slice include_slice! returns is a multiple of the
\* element type's alignment, for every file length including 0.
C5_Alignment ==
    (Built /\ op \in SliceOps /\ outcome = "ok")
        => /\ ptr > 0
           /\ ptr % AlignOf(ty, platform) = 0
           /\ BytesOffset(ty, Len(file), platform) = 0
           /\ AlignOf(ty, platform) \in {1, 2, 4, 8, 16}

C5_Witness ==
    /\ Built
    /\ op = "include_slice"
    /\ outcome = "ok"
    /\ AlignOf(ty, platform) = 16
    /\ Len(file) = 0
    /\ ptr > 16

\* C6: scalar endianness.  The 4-byte file 00 01 02 03 included with
\* include_data! as u32 is 0x03020100 on a little-endian target and
\* 0x00010203 on a big-endian one, in a static and in a const alike; for
\* every integer type byte k of the file is the coefficient of 256^k on a
\* little-endian target and of 256^(n-1-k) on a big-endian one, whatever the
\* build host's byte order.
C6_ScalarEndianness ==
    (Built /\ op = "include_data" /\ ty \in IntPrims
           /\ Len(file) = SizeOf(ty, platform))
        => /\ outcome = "ok"
           /\ Len(value[1]) = Len(file)
           /\ \A j \in 1..Len(file) :
                 value[1][j] = IF platform.endian = "little" THEN file[j]
                               ELSE file[Len(file) + 1 - j]
           /\ (ty = "u32" /\ file = Iota(4))
                 => Num(value[1]) = IF platform.endian = "little" THEN 50462976
                                    ELSE 66051

C6_Witness ==
    /\ Built
    /\ op = "include_data"
    /\ ty = "u32"
    /\ ctx = "const"
    /\ file = Iota(4)
    /\ platform.endian = "big"
    /\ platform.host_endian = "little"
    /\ Num(value[1]) = 66051

\* C7: slice element values on a little-endian target.  For a file holding
\* the bytes 0..N-1 and an integer element type of w bytes, w dividing N,
\* include_slice! yields N / w elements and byte j of element i is
\* w * i + j, the coefficient of 256^j: 16 elements (2i) | ((2i+1) << 8) for
\* the 32-byte file as u16, 8 elements for it as u32, 4 elements for the
\* 64-byte file as i128.
C7_SliceElementValues ==
    (Built /\ op = "include_slice" /\ platform.endian = "little"
           /\ ty \in IntPrims /\ file \in IotaFiles
           /\ Len(file) % SizeOf(ty, platform) = 0)
        => /\ outcome = "ok"
           /\ Len(value) * SizeOf(ty, platform) = Len(file)
           /\ \A i \in 0..(Len(value) - 1) :
                 /\ Len(value[i + 1][1]) = SizeOf(ty, platform)
                 /\ \A j \in 0..(SizeOf(ty, platform) - 1) :
                       value[i + 1][1][j + 1] = SizeOf(ty, platform) * i + j
           /\ (ty = "u16" /\ file = Iota(32))
                 => /\ Len(value) = 16
                    /\ \A i \in 0..15 :
                          Num(value[i + 1][1]) = 2 * i + (2 * i + 1) * 256
           /\ (ty = "u32" /\ file = Iota(32))
                 => /\ Len(value) = 8
                    /\ \A i \in 0..7 :
                          Num(value[i + 1][1])
                              = 4 * i + (4 * i + 1) * 256 + (4 * i + 2) * 65536
                                      + (4 * i + 3) * 16777216
           /\ (ty = "i128" /\ file = Iota(64)) => Len(value) = 4

C7_Witness ==
    /\ Built
    /\ op = "include_slice"
    /\ platform.endian = "little"
    /\ ty = "i128"
    /\ file = Iota(64)
    /\ outcome = "ok"
    /\ Len(value) = 4
    /\ value[4][1][16] = 63

C9_Original ==
    (Built /\ op = "include_unsafe" /\ ty = "StructWithPadding"
           /\ file = FileExactly4)
        => /\ outcome = "ok"
           /\ PadOffsets(ty, platform) = {}
           /\ Num(value[1]) = 1
           /\ Num(value[2]) = IF platform.endian = "little" THEN 770 ELSE 515
           /\ pc = "read" => readback = <<1, 0, 2, 3>>

\* C9 (amended): the file 01 00 02 03 included with include_unsafe! into the
\* repr(C) struct {byte: u8, two_bytes: u16} (size 4, one padding byte at
\* offset 1) gives fields 0x01 and 0x0302 (0x0203 big-endian), and its bytes
\* at offsets 0, 2 and 3 read back as 01, 02, 03; into the struct
\* {bool, bool, u16} of the test, which has no padding, it gives 0x01, 0x00
\* and 0x0302 (0x0203) and all 4 bytes read back as 01 00 02 03.
C9_UncheckedScenario ==
    /\ (Built /\ op = "include_unsafe" /\ ty = "StructWithPadding"
              /\ file = FileExactly4)
          => /\ outcome = "ok"
             /\ SizeOf(ty, platform) = 4
             /\ PadOffsets(ty, platform) = {2}
             /\ Num(value[1]) = 1
             /\ Num(value[2]) = IF platform.endian = "little" THEN 770 ELSE 515
             /\ pc = "read"
                   => (Len(readback) = 4 /\ readback[1] = 1
                         /\ readback[3] = 2 /\ readback[4] = 3)
    /\ (Built /\ op = "include_unsafe" /\ ty = "StructWithBools"
              /\ file = FileExactly4)
          => /\ outcome = "ok"
             /\ PadOffsets(ty, platform) = {}
             /\ Num(value[1]) = 1
             /\ Num(value[2]) = 0
             /\ Num(value[3]) = IF platform.endian = "little" THEN 770 ELSE 515
             /\ pc = "read" => readback = <<1, 0, 2, 3>>

C9_Witness ==
    /\ pc = "read"
    /\ op = "include_unsafe"
    /\ ty = "StructWithPadding"
    /\ file = FileExactly4
    /\ platform.endian = "little"
    /\ Num(value[2]) = 770
    /\ readback = <<1, 255, 2, 3>>

\* the element type and width an alias is named after
NamedElem(a) ==
    CASE a = "include_u8s"    -> [elem |-> "u8",    bytes |-> 1]
      [] a = "include_u16s"   -> [elem |-> "u16",   bytes |-> 2]
      [] a = "include_u32s"   -> [elem |-> "u32",   bytes |-> 4]
      [] a = "include_u64s"   -> [elem |-> "u64",   bytes |-> 8]
      [] a = "include_u128s"  -> [elem |-> "u128",  bytes |-> 16]
      [] a = "include_usizes" -> [elem |-> "usize", bytes |-> platform.ptr_width]
      [] a = "include_i8s"    -> [elem |-> "i8",    bytes |-> 1]
      [] a = "include_i16s"   -> [elem |-> "i16",   bytes |-> 2]
      [] a = "include_i32s"   -> [elem |-> "i32",   bytes |-> 4]
      [] a = "include_i64s"   -> [elem |-> "i64",   bytes |-> 8]
      [] a = "include_i128s"  -> [elem |-> "i128",  bytes |-> 16]
      [] a = "include_isizes" -> [elem |-> "isize", bytes |-> platform.ptr_width]
      [] a = "include_f32s"   -> [elem |-> "f32",   bytes |-> 4]
      [] a = "include_f64s"   -> [elem |-> "f64",   bytes |-> 8]

C12_ZeroSizedElement ==
    (Built /\ op = "include_slice" /\ IsPod(ty) /\ SizeOf(ty, platform) = 0)
        => /\ Failed
           /\ errs = {"RemainderByZero"}
           /\ value = <<>>
           /\ ptr = 0
           /\ pc # "read"

C12_Witness ==
    /\ Built
    /\ op = "include_slice"
    /\ ty = "()"
    /\ SizeOf(ty, platform) = 0
    /\ file = <<>>
    /\ outcome = "build_error"
    /\ errs = {"RemainderByZero"}

====
